---- MODULE Spec2Model ----
(***************************************************************************)
(* Model of src/src/App.vue (link description generator): the settings     *)
(* kept in localStorage, the model catalog fetched by loadModels, the      *)
(* model filter, and the completion request made by generateDescription.   *)
(*                                                                         *)
(* A JavaScript string is a sequence of one-character strings.  Values     *)
(* that may be something other than a string at run time (JSON bodies, the *)
(* catalog entries' fields, outputText, selectedModel, localStorage reads) *)
(* are tagged records, see JUndef .. JObj.                                 *)
(***************************************************************************)
EXTENDS Integers, Sequences, FiniteSets, TLC

VARIABLES
    phase,              \* "setup": <script setup> has run; "mounted": onMounted has run
    inputText,          \* ref, string
    outputText,         \* ref, JavaScript value (a string unless a response body says otherwise)
    isLoading,          \* ref, boolean
    apiKey,             \* ref, string
    selectedModel,      \* ref, JavaScript value
    modelFilter,        \* ref, string
    showModelDropdown,  \* ref, boolean
    availableModels,    \* ref, sequence of Model records
    isLoadingModels,    \* ref, boolean
    showSettings,       \* ref, boolean
    systemPrompt,       \* ref, string
    localStorage,       \* the browser's key-value store: key -> JNull (absent) or a string
    modelsFetch,        \* the call of loadModels: idle, pending on its fetch, or settled (with
                        \* the response it got and whether it threw)
    requests,           \* completion requests sent by fetch and not yet settled
    completion,         \* the last generation: none yet, pending (with the outputText it
                        \* cleared when it started), or settled (with the response it got)
    alerts,             \* number of alert() dialogs raised
    changed             \* settings edited since the page was loaded

vars == <<phase, inputText, outputText, isLoading, apiKey, selectedModel, modelFilter,
          showModelDropdown, availableModels, isLoadingModels, showSettings, systemPrompt,
          localStorage, modelsFetch, requests, completion, alerts, changed>>

(***************************************************************************)
(* Bounds of the model.                                                    *)
(***************************************************************************)
MaxInFlight == 2    \* completion requests that may be outstanding at once
MaxAlerts == 2      \* alert() dialogs counted

(***************************************************************************)
(* JavaScript values.                                                      *)
(***************************************************************************)
JUndef == [t |-> "undefined"]
JNull == [t |-> "null"]
JStr(s) == [t |-> "string", s |-> s]
JNum(n) == [t |-> "number", n |-> n]
JArr(e) == [t |-> "array", e |-> e]
JObj(f) == [t |-> "object", f |-> f]

\* The result of evaluating an expression: a value, or a thrown error.
Ok(v) == [throws |-> FALSE, v |-> v]
Throw == [throws |-> TRUE]

\* ToBoolean(v), as used by !, || and && .
Truthy(v) ==
    CASE v.t = "undefined" -> FALSE
      [] v.t = "null" -> FALSE
      [] v.t = "string" -> v.s # <<>>
      [] v.t = "number" -> v.n # 0
      [] OTHER -> TRUE

\* a || b
JOr(a, b) == IF Truthy(a) THEN a ELSE b

\* v.name : throws a TypeError on undefined and null, undefined when the
\* property is missing.
GetProp(v, name) ==
    CASE v.t \in {"undefined", "null"} -> Throw
      [] v.t = "object" -> IF name \in DOMAIN v.f THEN Ok(v.f[name]) ELSE Ok(JUndef)
      [] OTHER -> Ok(JUndef)

\* v[i] with a 0-based index.
GetIndex(v, i) ==
    CASE v.t \in {"undefined", "null"} -> Throw
      [] v.t = "array" -> IF i + 1 \in DOMAIN v.e THEN Ok(v.e[i + 1]) ELSE Ok(JUndef)
      [] v.t = "string" -> IF i + 1 \in DOMAIN v.s THEN Ok(JStr(<<v.s[i + 1]>>)) ELSE Ok(JUndef)
      [] OTHER -> Ok(JUndef)

(***************************************************************************)
(* Strings.                                                                *)
(***************************************************************************)
WhiteSpace == {" ", "\t", "\n"}

RECURSIVE TrimStart(_)
TrimStart(s) ==
    IF s # <<>> /\ Head(s) \in WhiteSpace THEN TrimStart(Tail(s)) ELSE s

RECURSIVE TrimEnd(_)
TrimEnd(s) ==
    IF s # <<>> /\ s[Len(s)] \in WhiteSpace THEN TrimEnd(SubSeq(s, 1, Len(s) - 1)) ELSE s

\* String.prototype.trim
Trim(s) == TrimEnd(TrimStart(s))

\* TRUE iff pat occurs in s at the 1-based position i.
MatchesAt(s, pat, i) ==
    /\ i >= 1
    /\ i + Len(pat) - 1 <= Len(s)
    /\ SubSeq(s, i, i + Len(pat) - 1) = pat

\* 1-based position of the first occurrence of pat in s, 0 when there is none.
IndexOf(s, pat) ==
    IF \E i \in 1..(Len(s) + 1) : MatchesAt(s, pat, i)
    THEN CHOOSE i \in 1..(Len(s) + 1) :
            /\ MatchesAt(s, pat, i)
            /\ \A j \in 1..(i - 1) : ~MatchesAt(s, pat, j)
    ELSE 0

\* The grave accent character (U+0060), which a TLA+ string cannot hold.
GraveAccent == "U+0060"

\* GetSubstitution of String.prototype.replace for a string pattern (no
\* capture groups): in the replacement text $$ is a dollar sign, $& the
\* matched text, $ before a grave accent the text before the match, $' the
\* text after it; any other character, a $ before anything else included,
\* stands for itself.
RECURSIVE GetSubstitution(_, _, _, _)
GetSubstitution(matched, before, after, replacement) ==
    IF replacement = <<>> THEN <<>>
    ELSE IF Head(replacement) = "$" /\ Len(replacement) >= 2
              /\ replacement[2] \in {"$", "&", GraveAccent, "'"}
         THEN (CASE replacement[2] = "$" -> <<"$">>
                 [] replacement[2] = "&" -> matched
                 [] replacement[2] = GraveAccent -> before
                 [] OTHER -> after)
              \o GetSubstitution(matched, before, after, SubSeq(replacement, 3, Len(replacement)))
         ELSE <<Head(replacement)>>
              \o GetSubstitution(matched, before, after, Tail(replacement))

\* Replace that puts the replacement at the end of a text without the
\* pattern.
ReplaceOrAppend(s, pattern, replacement) ==
    LET pos == IndexOf(s, pattern) IN
    IF pos = 0 THEN s \o replacement
    ELSE LET before == SubSeq(s, 1, pos - 1)
             after == SubSeq(s, pos + Len(pattern), Len(s))
         IN before \o GetSubstitution(pattern, before, after, replacement) \o after

\* String.prototype.replace(pattern, replacement) with a string pattern: the
\* first occurrence only.
Replace(s, pattern, replacement) ==
    LET pos == IndexOf(s, pattern) IN
    IF pos = 0 THEN s
    ELSE LET before == SubSeq(s, 1, pos - 1)
             after == SubSeq(s, pos + Len(pattern), Len(s))
         IN before \o GetSubstitution(pattern, before, after, replacement) \o after

\* String.prototype.includes
Includes(s, pat) == IndexOf(s, pat) # 0

UpperCaseLetters == <<"A", "B", "C", "D", "E", "F", "G", "H", "I", "J", "K", "L", "M",
                      "N", "O", "P", "Q", "R", "S", "T", "U", "V", "W", "X", "Y", "Z">>
LowerCaseLetters == <<"a", "b", "c", "d", "e", "f", "g", "h", "i", "j", "k", "l", "m",
                      "n", "o", "p", "q", "r", "s", "t", "u", "v", "w", "x", "y", "z">>

\* String.prototype.toLowerCase
ToLowerCase(s) ==
    [i \in 1..Len(s) |->
        IF \E j \in 1..26 : UpperCaseLetters[j] = s[i]
        THEN LowerCaseLetters[CHOOSE j \in 1..26 : UpperCaseLetters[j] = s[i]]
        ELSE s[i]]

Digits == <<"0", "1", "2", "3", "4", "5", "6", "7", "8", "9">>

\* Number.prototype.toString of a natural number.
RECURSIVE NatToString(_)
NatToString(n) ==
    IF n < 10 THEN <<Digits[n + 1]>>
    ELSE NatToString(n \div 10) \o <<Digits[(n % 10) + 1]>>

\* ToString(v) of ECMAScript, the conversion localStorage.setItem applies to its value.
RECURSIVE JToString(_)
JToString(v) ==
    CASE v.t = "undefined" -> <<"u", "n", "d", "e", "f", "i", "n", "e", "d">>
      [] v.t = "null" -> <<"n", "u", "l", "l">>
      [] v.t = "string" -> v.s
      [] v.t = "number" -> NatToString(v.n)
      [] v.t = "array" ->
            IF v.e = <<>> THEN <<>>
            ELSE LET first == IF Head(v.e).t \in {"undefined", "null"} THEN <<>>
                              ELSE JToString(Head(v.e))
                 IN IF Len(v.e) = 1 THEN first
                    ELSE first \o <<",">> \o JToString(JArr(Tail(v.e)))
      [] OTHER -> <<"[", "o", "b", "j", "e", "c", "t", " ", "O", "b", "j", "e", "c", "t", "]">>

(***************************************************************************)
(* Constants of the program.                                               *)
(***************************************************************************)
\* The storage keys.
KeyApiKey == "openrouter_api_key"
KeySelectedModel == "selected_model"
KeySystemPrompt == "system_prompt"
StorageKeys == {KeyApiKey, KeySelectedModel, KeySystemPrompt}

\* '{input}'
InputToken == <<"{", "i", "n", "p", "u", "t", "}">>

\* 'openai/gpt-4o-mini'
DefaultModelId ==
    <<"o", "p", "e", "n", "a", "i", "/", "g", "p", "t", "-", "4", "o", "-", "m", "i", "n", "i">>

\* 'anthropic/claude-sonnet-4'
ClaudeModelId ==
    <<"a", "n", "t", "h", "r", "o", "p", "i", "c", "/", "c", "l", "a", "u", "d", "e", "-",
      "s", "o", "n", "n", "e", "t", "-", "4">>

\* The default prompt: several lines of Russian instructions that hold no
\* '{input}' (abridged here to their first word, in Latin letters), then a
\* last line that ends with ': {input}'.
defaultPrompt ==
    <<"P", "r", "o", "a", "n", "a", "l", "i", "z", "i", "r", "u", "j", "\n",
      "T", "e", "k", "s", "t", ":", " ">> \o InputToken

\* The Russian text generateDescription shows when the request fails,
\* abridged to its first word, in Latin letters.
GenerationErrorText == <<"O", "s", "h", "i", "b", "k", "a">>

\* A Model object; a property the object does not have reads as undefined.
Model(id, name, description, context_length, pricing) ==
    [id |-> id, name |-> name, description |-> description,
     context_length |-> context_length, pricing |-> pricing]

\* The fallback catalog of loadModels.
FallbackModels ==
    << Model(JStr(DefaultModelId),
             JStr(<<"G", "P", "T", "-", "4", "o", " ", "M", "i", "n", "i">>),
             JUndef, JUndef, JUndef),
       Model(JStr(ClaudeModelId),
             JStr(<<"C", "l", "a", "u", "d", "e", " ", "S", "o", "n", "n", "e", "t", " ", "4">>),
             JUndef, JUndef, JUndef) >>

(***************************************************************************)
(* localStorage.                                                           *)
(***************************************************************************)
\* localStorage.getItem(key): null when the key is absent.
GetItem(store, key) == store[key]

\* localStorage.setItem(key, value): the value is stored as a string.
SetItem(store, key, value) == [store EXCEPT ![key] = JStr(JToString(value))]

\* localStorage.removeItem(key)
RemoveItem(store, key) == [store EXCEPT ![key] = JNull]

\* saveApiKey with a test of the key as it is, not trimmed.
saveApiKeyUntrimmed(store, key) ==
    IF key # <<>>
    THEN SetItem(store, KeyApiKey, JStr(key))
    ELSE RemoveItem(store, KeyApiKey)

\* saveApiKey without the branch for an empty key.
saveApiKeyAlways(store, key) == SetItem(store, KeyApiKey, JStr(key))

saveApiKey(store, key) ==
    IF Trim(key) # <<>>
    THEN SetItem(store, KeyApiKey, JStr(key))
    ELSE RemoveItem(store, KeyApiKey)

saveSelectedModel(store, modelId) == SetItem(store, KeySelectedModel, modelId)

saveSystemPrompt(store, prompt) == SetItem(store, KeySystemPrompt, JStr(prompt))

\* watch(apiKey, ...): the callback runs, before the next event, when the
\* ref's value has changed.
watchApiKey(store, old, new) == IF new # old THEN saveApiKey(store, new) ELSE store

\* watch(selectedModel, ...)
watchSelectedModel(store, old, new) == IF new # old THEN saveSelectedModel(store, new) ELSE store

\* No watcher on systemPrompt.
watchSystemPromptMissing(store, old, new) == store

\* watch(systemPrompt, ...)
watchSystemPrompt(store, old, new) == IF new # old THEN saveSystemPrompt(store, new) ELSE store

\* The initial values of the refs apiKey, selectedModel and systemPrompt.
InitialApiKey(store) == JOr(GetItem(store, KeyApiKey), JStr(<<>>)).s
InitialSelectedModel(store) == JOr(GetItem(store, KeySelectedModel), JStr(DefaultModelId))
InitialSystemPrompt(store) == JOr(GetItem(store, KeySystemPrompt), JStr(defaultPrompt)).s

(***************************************************************************)
(* Responses of fetch.  A fetch either rejects (network failure) or        *)
(* resolves with a response that has a status (ok: 2xx or not) and a body; *)
(* json is what response.json() gives: the parsed value, or a thrown       *)
(* error when the body is not JSON.                                        *)
(***************************************************************************)
Rejected == [kind |-> "reject"]
Http(ok, json) == [kind |-> "http", ok |-> ok, json |-> json]

(***************************************************************************)
(* loadModels.                                                             *)
(***************************************************************************)
\* MapModel without the id in place of a missing or empty name.
MapModelKeepsName(model) ==
    LET id == GetProp(model, "id")
        name == GetProp(model, "name")
        description == GetProp(model, "description")
        context_length == GetProp(model, "context_length")
        pricing == GetProp(model, "pricing")
    IN IF id.throws THEN Throw
       ELSE Ok(Model(id.v, name.v, description.v, context_length.v, pricing.v))

\* The callback of data.data.map: one Model per entry.
MapModel(model) ==
    LET id == GetProp(model, "id")
        name == GetProp(model, "name")
        description == GetProp(model, "description")
        context_length == GetProp(model, "context_length")
        pricing == GetProp(model, "pricing")
    IN IF id.throws THEN Throw
       ELSE Ok(Model(id.v, JOr(name.v, id.v), description.v, context_length.v, pricing.v))

\* MapModels with a data.data that is missing or no array read as an empty
\* list, as (data.data || []).map(...) would.
MapModelsLenient(data) ==
    LET list == GetProp(data, "data") IN
    IF list.throws THEN Throw
    ELSE IF list.v.t # "array" THEN Ok(<<>>)
    ELSE IF \E i \in DOMAIN list.v.e : MapModel(list.v.e[i]).throws THEN Throw
    ELSE Ok([i \in DOMAIN list.v.e |-> MapModel(list.v.e[i]).v])

\* data.data.map(...): a TypeError when data.data cannot be read, when it has
\* no map method (it is not an array) or when the callback throws.
MapModels(data) ==
    LET list == GetProp(data, "data") IN
    IF list.throws THEN Throw
    ELSE IF list.v.t # "array" THEN Throw
    ELSE IF \E i \in DOMAIN list.v.e : MapModel(list.v.e[i]).throws THEN Throw
    ELSE Ok([i \in DOMAIN list.v.e |-> MapModel(list.v.e[i]).v])

\* The try block of loadModels once its fetch has settled with response,
\* models being the catalog before: the new catalog, or a thrown error.
LoadModelsTry(models, response) ==
    IF response.kind = "reject" THEN Throw
    ELSE IF response.ok
         THEN IF response.json.throws THEN Throw
              ELSE MapModels(response.json.v)
         ELSE Ok(models)

\* loadModels from its await on: the catch clause puts the fallback catalog
\* in place of any error of the try block.  throws tells whether an error
\* leaves loadModels, that is whether the promise it returned is rejected.
LoadModelsResult(models, response) ==
    LET tried == LoadModelsTry(models, response) IN
    IF tried.throws
    THEN [availableModels |-> FallbackModels, throws |-> FALSE]
    ELSE [availableModels |-> tried.v, throws |-> FALSE]

(***************************************************************************)
(* filteredModels, getSelectedModelName.                                   *)
(***************************************************************************)
\* v.toLowerCase().includes(filter): a TypeError unless v is a string.
LowerIncludes(v, filter) ==
    IF v.t = "string" THEN Ok(Includes(ToLowerCase(v.s), filter)) ELSE Throw

\* The callback of availableModels.filter.
FilterMatches(model, filter) ==
    LET byName == LowerIncludes(model.name, filter) IN
    IF byName.throws THEN Throw
    ELSE IF byName.v THEN Ok(TRUE)
    ELSE LET byId == LowerIncludes(model.id, filter) IN
         IF byId.throws THEN Throw
         ELSE IF byId.v THEN Ok(TRUE)
         ELSE IF ~Truthy(model.description) THEN Ok(FALSE)
         ELSE LowerIncludes(model.description, filter)

\* FilterSeq with the matching entries in reverse order.
RECURSIVE FilterSeqReversed(_, _)
FilterSeqReversed(models, filter) ==
    IF models = <<>> THEN <<>>
    ELSE FilterSeqReversed(Tail(models), filter)
         \o (IF FilterMatches(Head(models), filter).v THEN <<Head(models)>> ELSE <<>>)

\* Array.prototype.filter with a predicate that does not throw.
RECURSIVE FilterSeq(_, _)
FilterSeq(models, filter) ==
    IF models = <<>> THEN <<>>
    ELSE (IF FilterMatches(Head(models), filter).v THEN <<Head(models)>> ELSE <<>>)
         \o FilterSeq(Tail(models), filter)

\* The computed filteredModels: a list, or a thrown TypeError.
filteredModels(models, modelFilterValue) ==
    IF modelFilterValue = <<>> THEN Ok(models)
    ELSE LET filter == ToLowerCase(modelFilterValue) IN
         IF \E i \in DOMAIN models : FilterMatches(models[i], filter).throws THEN Throw
         ELSE Ok(FilterSeq(models, filter))

\* getSelectedModelName that shows the selected id, whatever the catalog.
getSelectedModelNameRawId(models, selected) == selected

getSelectedModelName(models, selected) ==
    IF \E i \in DOMAIN models : models[i].id = selected
    THEN models[CHOOSE i \in DOMAIN models :
                    /\ models[i].id = selected
                    /\ \A j \in 1..(i - 1) : models[j].id # selected].name
    ELSE selected

(***************************************************************************)
(* generateDescription.                                                    *)
(***************************************************************************)
\* MissingInput without the trimming: only empty strings count as missing.
MissingInputUntrimmed(text, key) == text = <<>> \/ key = <<>>

\* The guard at the head of generateDescription.
MissingInput(text, key) == Trim(text) = <<>> \/ Trim(key) = <<>>

\* CompletionRequest with the model id written into the code, whatever
\* model is selected.
CompletionRequestFixedModel(key, model, prompt, text) ==
    [method |-> "POST",
     authorization |-> <<"B", "e", "a", "r", "e", "r", " ">> \o key,
     body |-> [model |-> JStr(DefaultModelId),
               messages |-> << [role |-> "user",
                                content |-> Replace(prompt, InputToken, text)] >>]]

\* The request generateDescription hands to fetch.  body is the object given
\* to JSON.stringify, which leaves out a property whose value is undefined.
CompletionRequest(key, model, prompt, text) ==
    [method |-> "POST",
     authorization |-> <<"B", "e", "a", "r", "e", "r", " ">> \o key,
     body |-> [model |-> model,
               messages |-> << [role |-> "user",
                                content |-> Replace(prompt, InputToken, text)] >>]]

\* FirstChoiceContent reading the last choice instead of the first.
LastChoiceContent(data) ==
    LET choices == GetProp(data, "choices")
        last == IF choices.throws THEN Throw
                ELSE IF choices.v.t = "array"
                     THEN GetIndex(choices.v, Len(choices.v.e) - 1)
                     ELSE GetIndex(choices.v, 0)
        message == IF last.throws THEN Throw ELSE GetProp(last.v, "message")
    IN IF message.throws THEN Throw ELSE GetProp(message.v, "content")

\* data.choices[0].message.content
FirstChoiceContent(data) ==
    LET choices == GetProp(data, "choices")
        first == IF choices.throws THEN Throw ELSE GetIndex(choices.v, 0)
        message == IF first.throws THEN Throw ELSE GetProp(first.v, "message")
    IN IF message.throws THEN Throw ELSE GetProp(message.v, "content")

\* The value generateDescription leaves in outputText once its fetch has
\* settled with response.
GenerateResult(response) ==
    IF response.kind = "reject" THEN JStr(GenerationErrorText)
    ELSE IF ~response.ok THEN JStr(GenerationErrorText)
    ELSE IF response.json.throws THEN JStr(GenerationErrorText)
    ELSE LET content == FirstChoiceContent(response.json.v) IN
         IF content.throws THEN JStr(GenerationErrorText) ELSE content.v

(***************************************************************************)
(* The state after <script setup> has run on a page whose localStorage is  *)
(* store.                                                                  *)
(***************************************************************************)
Setup(store) ==
    /\ phase = "setup"
    /\ inputText = <<>>
    /\ outputText = JStr(<<>>)
    /\ isLoading = FALSE
    /\ apiKey = InitialApiKey(store)
    /\ selectedModel = InitialSelectedModel(store)
    /\ modelFilter = <<>>
    /\ showModelDropdown = FALSE
    /\ availableModels = <<>>
    /\ isLoadingModels = FALSE
    /\ showSettings = FALSE
    /\ systemPrompt = InitialSystemPrompt(store)
    /\ localStorage = store
    /\ modelsFetch = [st |-> "idle"]
    /\ requests = <<>>
    /\ completion = [st |-> "none"]
    /\ alerts = 0
    /\ changed = {}

EmptyStore == [k \in StorageKeys |-> JNull]

Init == Setup(EmptyStore)

\* The refs and the store that hold the three settings.
settingVars == <<apiKey, selectedModel, systemPrompt, localStorage, changed>>
\* The catalog and its fetch.
catalogVars == <<availableModels, isLoadingModels, modelsFetch>>
\* The generation and its requests.
generationVars == <<outputText, isLoading, requests, completion, alerts>>
\* The model dropdown.
dropdownVars == <<modelFilter, showModelDropdown>>

(***************************************************************************)
(* Startup: onMounted calls loadModels, which runs up to its await.        *)
(***************************************************************************)
OnMounted ==
    /\ phase = "setup"
    /\ phase' = "mounted"
    /\ isLoadingModels' = TRUE
    /\ modelsFetch' = [st |-> "pending"]
    /\ UNCHANGED <<inputText, availableModels, showSettings, settingVars, generationVars,
                   dropdownVars>>

\* The catalog fetch settles and loadModels runs to its end.  Between its
\* two awaits loadModels reads and writes no ref, so they are one step.
LoadModelsSettled(response) ==
    /\ modelsFetch.st = "pending"
    /\ availableModels' = LoadModelsResult(availableModels, response).availableModels
    /\ isLoadingModels' = FALSE
    /\ modelsFetch' = [st |-> "settled", response |-> response,
                       throws |-> LoadModelsResult(availableModels, response).throws]
    /\ UNCHANGED <<phase, inputText, showSettings, settingVars, generationVars, dropdownVars>>

(***************************************************************************)
(* The dropdown.  closeDropdown is the click listener of the document: it  *)
(* runs after the handler of every click that bubbles up to the document   *)
(* and closes the dropdown when the click was outside of it.               *)
(***************************************************************************)
closeDropdown ==
    /\ showModelDropdown' = FALSE
    /\ modelFilter' = <<>>

\* A click somewhere outside the dropdown that has no handler of its own.
ClickOutside ==
    /\ phase = "mounted"
    /\ closeDropdown
    /\ UNCHANGED <<phase, inputText, showSettings, settingVars, catalogVars, generationVars>>

\* The model-select-btn, disabled while the catalog loads.
ToggleModelDropdown ==
    /\ phase = "mounted"
    /\ ~isLoadingModels
    /\ showModelDropdown' = ~showModelDropdown
    /\ UNCHANGED <<phase, inputText, modelFilter, showSettings, settingVars, catalogVars,
                   generationVars>>

\* v-model of the search input, which exists while the dropdown is open.
SetModelFilter(filter) ==
    /\ phase = "mounted"
    /\ showModelDropdown
    /\ filter # modelFilter
    /\ modelFilter' = filter
    /\ UNCHANGED <<phase, inputText, showModelDropdown, showSettings, settingVars, catalogVars,
                   generationVars>>

\* selectModel without the reset of the filter string.
selectModelKeepsFilter(modelId) ==
    /\ selectedModel' = modelId
    /\ showModelDropdown' = FALSE
    /\ modelFilter' = modelFilter
    /\ localStorage' = watchSelectedModel(saveSelectedModel(localStorage, modelId),
                                          selectedModel, modelId)
    /\ changed' = changed \cup {"selectedModel"}

selectModel(modelId) ==
    /\ selectedModel' = modelId
    /\ showModelDropdown' = FALSE
    /\ modelFilter' = <<>>
    /\ localStorage' = watchSelectedModel(saveSelectedModel(localStorage, modelId),
                                          selectedModel, modelId)
    /\ changed' = changed \cup {"selectedModel"}

\* ClickModelOption with a selection that also clears the output.
ClickModelOptionClearsOutput(i) ==
    /\ phase = "mounted"
    /\ showModelDropdown
    /\ ~filteredModels(availableModels, modelFilter).throws
    /\ i \in DOMAIN filteredModels(availableModels, modelFilter).v
    /\ selectModel(filteredModels(availableModels, modelFilter).v[i].id)
    /\ outputText' = JStr(<<>>)
    /\ UNCHANGED <<phase, inputText, apiKey, systemPrompt, showSettings, catalogVars,
                   isLoading, requests, completion, alerts>>

\* A click on the i-th option of the open dropdown's list.
ClickModelOption(i) ==
    /\ phase = "mounted"
    /\ showModelDropdown
    /\ ~filteredModels(availableModels, modelFilter).throws
    /\ i \in DOMAIN filteredModels(availableModels, modelFilter).v
    /\ selectModel(filteredModels(availableModels, modelFilter).v[i].id)
    /\ UNCHANGED <<phase, inputText, apiKey, systemPrompt, showSettings, catalogVars,
                   generationVars>>

(***************************************************************************)
(* The text fields.                                                        *)
(***************************************************************************)
SetInputText(text) ==
    /\ phase = "mounted"
    /\ text # inputText
    /\ inputText' = text
    /\ UNCHANGED <<phase, showSettings, settingVars, catalogVars, generationVars, dropdownVars>>

\* SetApiKey with an edit that gives up the outstanding requests.
SetApiKeyCancels(key) ==
    /\ phase = "mounted"
    /\ key # apiKey
    /\ apiKey' = key
    /\ localStorage' = watchApiKey(localStorage, apiKey, key)
    /\ changed' = changed \cup {"apiKey"}
    /\ requests' = <<>>
    /\ isLoading' = FALSE
    /\ UNCHANGED <<phase, inputText, selectedModel, systemPrompt, showSettings, catalogVars,
                   outputText, completion, alerts, dropdownVars>>

SetApiKey(key) ==
    /\ phase = "mounted"
    /\ key # apiKey
    /\ apiKey' = key
    /\ localStorage' = watchApiKey(localStorage, apiKey, key)
    /\ changed' = changed \cup {"apiKey"}
    /\ UNCHANGED <<phase, inputText, selectedModel, systemPrompt, showSettings, catalogVars,
                   generationVars, dropdownVars>>

(***************************************************************************)
(* The settings dialog.                                                    *)
(***************************************************************************)
\* The settings-btn; the click goes on to the document.
openSettings ==
    /\ phase = "mounted"
    /\ showSettings' = TRUE
    /\ closeDropdown
    /\ UNCHANGED <<phase, inputText, settingVars, catalogVars, generationVars>>

\* closeSettings by a button of the dialog, whose clicks the dialog stops,
\* or by a click on the overlay, which goes on to the document.
closeSettings(onOverlay) ==
    /\ phase = "mounted"
    /\ showSettings
    /\ showSettings' = FALSE
    /\ IF onOverlay THEN closeDropdown ELSE UNCHANGED dropdownVars
    /\ UNCHANGED <<phase, inputText, settingVars, catalogVars, generationVars>>

\* v-model of the prompt textarea of the dialog.
SetSystemPrompt(prompt) ==
    /\ phase = "mounted"
    /\ showSettings
    /\ prompt # systemPrompt
    /\ systemPrompt' = prompt
    /\ localStorage' = watchSystemPrompt(localStorage, systemPrompt, prompt)
    /\ changed' = changed \cup {"systemPrompt"}
    /\ UNCHANGED <<phase, inputText, apiKey, selectedModel, showSettings, catalogVars,
                   generationVars, dropdownVars>>

\* resetPromptToDefault that drops the entry of the store, the default
\* being what a page without the entry starts with.
resetPromptForgetsStore ==
    /\ phase = "mounted"
    /\ showSettings
    /\ systemPrompt' = defaultPrompt
    /\ localStorage' = RemoveItem(localStorage, KeySystemPrompt)
    /\ changed' = changed \cup {"systemPrompt"}
    /\ UNCHANGED <<phase, inputText, apiKey, selectedModel, showSettings, catalogVars,
                   generationVars, dropdownVars>>

\* The reset-btn of the dialog.
resetPromptToDefault ==
    /\ phase = "mounted"
    /\ showSettings
    /\ systemPrompt' = defaultPrompt
    /\ localStorage' = watchSystemPrompt(saveSystemPrompt(localStorage, defaultPrompt),
                                         systemPrompt, defaultPrompt)
    /\ changed' = changed \cup {"systemPrompt"}
    /\ UNCHANGED <<phase, inputText, apiKey, selectedModel, showSettings, catalogVars,
                   generationVars, dropdownVars>>

(***************************************************************************)
(* generateDescription.                                                    *)
(***************************************************************************)
\* generateDescription without the clearing of outputText.
generateDescriptionKeepsOutput ==
    IF MissingInput(inputText, apiKey)
    THEN /\ alerts < MaxAlerts
         /\ alerts' = alerts + 1
         /\ UNCHANGED <<outputText, isLoading, requests, completion>>
    ELSE /\ Len(requests) < MaxInFlight
         /\ isLoading' = TRUE
         /\ requests' = Append(requests,
                               CompletionRequest(apiKey, selectedModel, systemPrompt, inputText))
         /\ completion' = [st |-> "pending", cleared |-> outputText]
         /\ UNCHANGED <<alerts, outputText>>

\* generateDescription up to its first await: the guard, then the request.
generateDescription ==
    IF MissingInput(inputText, apiKey)
    THEN /\ alerts < MaxAlerts
         /\ alerts' = alerts + 1
         /\ UNCHANGED <<outputText, isLoading, requests, completion>>
    ELSE /\ Len(requests) < MaxInFlight
         /\ isLoading' = TRUE
         /\ outputText' = JStr(<<>>)
         /\ requests' = Append(requests,
                               CompletionRequest(apiKey, selectedModel, systemPrompt, inputText))
         /\ completion' = [st |-> "pending", cleared |-> outputText]
         /\ UNCHANGED alerts

\* GenerateDisabled without the isLoading test.
GenerateDisabledWhenMissing == Trim(inputText) = <<>> \/ Trim(apiKey) = <<>>

\* :disabled of the generate-btn.
GenerateDisabled == isLoading \/ Trim(inputText) = <<>> \/ Trim(apiKey) = <<>>

\* A click on the generate-btn; the click goes on to the document.
ClickGenerate ==
    /\ phase = "mounted"
    /\ ~GenerateDisabled
    /\ generateDescription
    /\ closeDropdown
    /\ UNCHANGED <<phase, inputText, showSettings, settingVars, catalogVars>>

\* generateDescription called as a function, whatever the button's state.
CallGenerateDescription ==
    /\ phase = "mounted"
    /\ generateDescription
    /\ UNCHANGED <<phase, inputText, showSettings, settingVars, catalogVars, dropdownVars>>

RemoveAt(seq, i) == SubSeq(seq, 1, i - 1) \o SubSeq(seq, i + 1, Len(seq))

\* CompletionSettled with isLoading reset at the end of the try block, not
\* in a finally clause: a failed request leaves it set.
CompletionSettledNoFinally(i, response) ==
    /\ i \in DOMAIN requests
    /\ outputText' = GenerateResult(response)
    /\ isLoading' = (response.kind = "reject" \/ ~response.ok \/ response.json.throws)
    /\ requests' = RemoveAt(requests, i)
    /\ completion' = [st |-> "settled", response |-> response]
    /\ UNCHANGED <<phase, inputText, showSettings, alerts, settingVars, catalogVars,
                   dropdownVars>>

\* The fetch of the i-th outstanding request settles and generateDescription
\* runs to its end.  Between its two awaits generateDescription reads and
\* writes no ref, so they are one step.
CompletionSettled(i, response) ==
    /\ i \in DOMAIN requests
    /\ outputText' = GenerateResult(response)
    /\ isLoading' = FALSE
    /\ requests' = RemoveAt(requests, i)
    /\ completion' = [st |-> "settled", response |-> response]
    /\ UNCHANGED <<phase, inputText, showSettings, alerts, settingVars, catalogVars,
                   dropdownVars>>

(***************************************************************************)
(* A reload of the page: the refs are set up again from localStorage and   *)
(* what the old page was waiting for is dropped.                           *)
(***************************************************************************)
Reload ==
    /\ phase = "mounted"
    /\ phase' = "setup"
    /\ inputText' = <<>>
    /\ outputText' = JStr(<<>>)
    /\ isLoading' = FALSE
    /\ apiKey' = InitialApiKey(localStorage)
    /\ selectedModel' = InitialSelectedModel(localStorage)
    /\ modelFilter' = <<>>
    /\ showModelDropdown' = FALSE
    /\ availableModels' = <<>>
    /\ isLoadingModels' = FALSE
    /\ showSettings' = FALSE
    /\ systemPrompt' = InitialSystemPrompt(localStorage)
    /\ modelsFetch' = [st |-> "idle"]
    /\ requests' = <<>>
    /\ completion' = [st |-> "none"]
    /\ changed' = {}
    /\ UNCHANGED <<localStorage, alerts>>

(***************************************************************************)
(* What the user types and what the servers answer.                        *)
(***************************************************************************)
InputTexts ==
    { <<>>, <<" ">>, <<"a">>, <<" ", "a", "\n">>, <<"$", "$">>, <<"$", "&">>,
      <<"$", GraveAccent>>, <<"$", "'">>, <<"$", "1">> }

ApiKeys == { <<>>, <<" ">>, <<" ", "\n">>, <<"s", "k">>, <<" ", "k">> }

OneTokenPrompt == <<"p", ":">> \o InputToken \o <<".">>
TwoTokenPrompt == InputToken \o <<"+">> \o InputToken
NoTokenPrompt == <<"n", "o">>

Prompts == { <<>>, OneTokenPrompt, TwoTokenPrompt, NoTokenPrompt }

ModelFilters == { <<>>, <<"G", "P", "T">>, <<"A">>, <<"/", "B">>, <<"z">> }

\* Entries of a catalog body.
EntryA ==
    JObj([id |-> JStr(<<"m", "/", "a">>), name |-> JStr(<<"A">>),
          description |-> JStr(<<"g", "p", "t">>)])
EntryB == JObj([id |-> JStr(<<"m", "/", "b">>)])
EntryC == JObj([id |-> JStr(<<"m", "/", "c">>), name |-> JStr(<<"a", "2">>)])
EntryNoId == JObj([name |-> JStr(<<"N">>)])
EntryNoName == JObj([id |-> JStr(<<"m", "/", "d">>), name |-> JStr(<<>>), context_length |-> JNum(8)])

CatalogBody(entries) == Http(TRUE, Ok(JObj([data |-> JArr(entries)])))

CatalogResponses ==
    { Rejected,
      Http(FALSE, Throw),
      Http(FALSE, Ok(JObj([data |-> JArr(<<EntryA>>)]))),
      Http(TRUE, Throw),
      Http(TRUE, Ok(JNull)),
      Http(TRUE, Ok(JObj([error |-> JStr(<<"e">>)]))),
      Http(TRUE, Ok(JObj([data |-> JObj([map |-> JNum(1)])]))),
      Http(TRUE, Ok(JObj([data |-> JStr(<<"x">>)]))),
      CatalogBody(<<JNull>>),
      CatalogBody(<<>>),
      CatalogBody(<<EntryA, EntryB>>),
      CatalogBody(<<EntryA, EntryB, EntryC>>),
      CatalogBody(<<EntryNoName, EntryA>>),
      CatalogBody(<<EntryB, EntryNoId>>) }

Choice(content) == JObj([message |-> JObj([content |-> content])])

CompletionBody(choices) == Http(TRUE, Ok(JObj([choices |-> JArr(choices)])))

CompletionResponses ==
    { Rejected,
      Http(FALSE, Throw),
      Http(FALSE, Ok(JObj([choices |-> JArr(<<Choice(JStr(<<"x">>))>>)]))),
      Http(TRUE, Throw),
      Http(TRUE, Ok(JNull)),
      Http(TRUE, Ok(JObj([error |-> JStr(<<"e">>)]))),
      CompletionBody(<<>>),
      CompletionBody(<<JObj([index |-> JNum(0)])>>),
      CompletionBody(<<JObj([message |-> JObj([role |-> JStr(<<"a">>)])])>>),
      CompletionBody(<<Choice(JStr(<<" ", "-", " ", "A", "\n">>)), Choice(JStr(<<"B">>))>>),
      CompletionBody(<<Choice(JStr(<<>>))>>),
      CompletionBody(<<Choice(JStr(<<"B">>))>>) }

\* The few inputs of the specification of the whole page.
FewInputTexts == { <<>>, <<"a">> }
FewApiKeys == { <<>>, <<"s", "k">> }
FewPrompts == { TwoTokenPrompt }
FewModelFilters == { <<>>, <<"z">> }
FewCatalogResponses == { Rejected, Http(FALSE, Throw), CatalogBody(<<EntryA, EntryB>>) }
FewCompletionResponses == { Rejected, CompletionBody(<<Choice(JStr(<<"B">>))>>) }

(***************************************************************************)
(* The whole page as its user drives it, with few inputs.                  *)
(***************************************************************************)
Next ==
    \/ OnMounted
    \/ \E response \in FewCatalogResponses : LoadModelsSettled(response)
    \/ ClickOutside
    \/ ToggleModelDropdown
    \/ \E filter \in FewModelFilters : SetModelFilter(filter)
    \/ \E i \in 1..Len(availableModels) : ClickModelOption(i)
    \/ \E text \in FewInputTexts : SetInputText(text)
    \/ \E key \in FewApiKeys : SetApiKey(key)
    \/ openSettings
    \/ \E onOverlay \in BOOLEAN : closeSettings(onOverlay)
    \/ \E prompt \in FewPrompts : SetSystemPrompt(prompt)
    \/ resetPromptToDefault
    \/ ClickGenerate
    \/ \E i \in 1..MaxInFlight, response \in FewCompletionResponses :
            CompletionSettled(i, response)
    \/ Reload

Spec == Init /\ [][Next]_vars

(***************************************************************************)
(* The catalog: loadModels with every kind of response, and the dropdown.  *)
(***************************************************************************)
NextCatalog ==
    \/ OnMounted
    \/ \E response \in CatalogResponses : LoadModelsSettled(response)
    \/ ClickOutside
    \/ ToggleModelDropdown
    \/ \E filter \in ModelFilters : SetModelFilter(filter)
    \/ \E i \in 1..Len(availableModels) : ClickModelOption(i)
    \/ Reload

SpecCatalog == Init /\ [][NextCatalog]_vars

(***************************************************************************)
(* The settings: every edit of the three settings, and reloads.            *)
(***************************************************************************)
NextSettings ==
    \/ OnMounted
    \/ LoadModelsSettled(CatalogBody(<<EntryB, EntryNoId>>))
    \/ ToggleModelDropdown
    \/ \E i \in 1..Len(availableModels) : ClickModelOption(i)
    \/ \E key \in ApiKeys : SetApiKey(key)
    \/ openSettings
    \/ \E onOverlay \in BOOLEAN : closeSettings(onOverlay)
    \/ \E prompt \in Prompts : SetSystemPrompt(prompt)
    \/ resetPromptToDefault
    \/ Reload

SpecSettings == Init /\ [][NextSettings]_vars

(***************************************************************************)
(* The generation: the generate button with every input text, prompt and   *)
(* response.                                                               *)
(***************************************************************************)
NextGenerate ==
    \/ OnMounted
    \/ \E text \in InputTexts : SetInputText(text)
    \/ \E key \in FewApiKeys : SetApiKey(key)
    \/ openSettings
    \/ \E prompt \in Prompts : SetSystemPrompt(prompt)
    \/ resetPromptToDefault
    \/ ClickGenerate
    \/ \E i \in 1..MaxInFlight, response \in CompletionResponses :
            CompletionSettled(i, response)

SpecGenerate == Init /\ [][NextGenerate]_vars

\* The same with a transport that settles every request in the end: fetch
\* resolves or rejects, and the continuation of generateDescription is run.
SpecGenerateLive ==
    SpecGenerate
    /\ WF_vars(\E i \in 1..MaxInFlight, response \in CompletionResponses :
                    CompletionSettled(i, response))

(***************************************************************************)
(* generateDescription called as a function, in any state of the page.     *)
(***************************************************************************)
NextCall ==
    \/ OnMounted
    \/ \E text \in { <<>>, <<" ", "\n">>, <<"a">> } : SetInputText(text)
    \/ \E key \in { <<>>, <<" ">>, <<"s", "k">> } : SetApiKey(key)
    \/ CallGenerateDescription
    \/ ClickGenerate
    \/ \E i \in 1..MaxInFlight, response \in FewCompletionResponses :
            CompletionSettled(i, response)

SpecCall == Init /\ [][NextCall]_vars

(***************************************************************************)
(* The claims about loadModels.                                            *)
(***************************************************************************)
\* The call of loadModels has ended.
ModelsSettled == modelsFetch.st = "settled"

\* The catalog fetch resolved with a status that is not 2xx.
CatalogNon2xx ==
    /\ ModelsSettled
    /\ modelsFetch.response.kind = "http"
    /\ ~modelsFetch.response.ok

\* C1: when the catalog fetch resolved with a non-2xx status, availableModels
\* is the fallback catalog of two entries afterwards.
C1_Non2xxGivesFallback ==
    CatalogNon2xx =>
        /\ availableModels = FallbackModels
        /\ Len(availableModels) = 2
        /\ availableModels[1].id = JStr(DefaultModelId)
        /\ availableModels[2].id = JStr(ClaudeModelId)

\* A parsed body that is an object with a data array.
HasDataArray(json) ==
    /\ json.t = "object"
    /\ "data" \in DOMAIN json.f
    /\ json.f["data"].t = "array"

\* The catalog fetch was rejected, or resolved 2xx with a body that is not
\* JSON or that is JSON without a data array.
CatalogFetchFailed ==
    /\ ModelsSettled
    /\ \/ modelsFetch.response.kind = "reject"
       \/ /\ modelsFetch.response.kind = "http"
          /\ modelsFetch.response.ok
          /\ \/ modelsFetch.response.json.throws
             \/ ~HasDataArray(modelsFetch.response.json.v)

\* C2: when the catalog fetch was rejected, or resolved 2xx with a body that
\* is not JSON or has no data array, loadModels throws nothing and
\* availableModels is the fallback catalog afterwards.
C2_FailedFetchGivesFallback ==
    CatalogFetchFailed =>
        /\ ~modelsFetch.throws
        /\ availableModels = FallbackModels

\* C2's case: a 2xx JSON body without a data array has been answered with the
\* fallback catalog.
C2_Witness ==
    /\ CatalogFetchFailed
    /\ modelsFetch.response.kind = "http"
    /\ ~modelsFetch.response.json.throws
    /\ availableModels = FallbackModels
    /\ ~isLoadingModels

\* The catalog fetch resolved 2xx with a JSON body that has a data array.
CatalogOk ==
    /\ ModelsSettled
    /\ modelsFetch.response.kind = "http"
    /\ modelsFetch.response.ok
    /\ ~modelsFetch.response.json.throws
    /\ HasDataArray(modelsFetch.response.json.v)

\* The entries of the data array of the body.
CatalogEntries == modelsFetch.response.json.v.f["data"].e

\* The field name of a catalog entry, undefined when the entry has none.
Field(entry, name) ==
    IF entry.t = "object" /\ name \in DOMAIN entry.f THEN entry.f[name] ELSE JUndef

\* The descriptor of a catalog entry: its fields, the optional ones
\* undefined when missing, and its id as name when it has no name or an
\* empty one.
Descriptor(entry) ==
    Model(Field(entry, "id"),
          IF Field(entry, "name") \in {JUndef, JStr(<<>>)}
          THEN Field(entry, "id") ELSE Field(entry, "name"),
          Field(entry, "description"),
          Field(entry, "context_length"),
          Field(entry, "pricing"))

\* availableModels is the descriptors of the entries of the body, one for
\* one and in their order, and nothing else.
CatalogIsMapped ==
    /\ Len(availableModels) = Len(CatalogEntries)
    /\ \A i \in DOMAIN CatalogEntries : availableModels[i] = Descriptor(CatalogEntries[i])

\* C14 as stated: after a 2xx catalog response with a data array,
\* availableModels is the descriptors of its entries, one for one and in
\* their order, and nothing else; a missing or empty name is the entry's id.
C14_OkCatalogIsMapped == CatalogOk => CatalogIsMapped

\* C14 amended: after a 2xx catalog response with a data array whose
\* entries are all objects, availableModels is the descriptors of its
\* entries, one for one and in their order, and nothing else; a missing or
\* empty name is the entry's id.
C14_OkCatalogOfObjectsIsMapped ==
    (CatalogOk /\ \A i \in DOMAIN CatalogEntries : CatalogEntries[i].t = "object")
        => CatalogIsMapped

\* C14's case: a body of two entries, the first with an empty name and no
\* description, has become a catalog of two, the first named by its id.
C14_Witness ==
    /\ CatalogOk
    /\ Len(CatalogEntries) = 2
    /\ Field(CatalogEntries[1], "name") = JStr(<<>>)
    /\ Len(availableModels) = 2
    /\ availableModels[1].name = availableModels[1].id
    /\ availableModels[1].description = JUndef
    /\ availableModels[1].context_length = JNum(8)

\* C16: once the startup call of loadModels has ended, whatever the catalog
\* fetch gave, isLoadingModels is false and the catalog is populated: it is
\* the descriptors of the fetched entries or the fallback catalog.
C16_LoadedCatalogIsPopulated ==
    ModelsSettled =>
        /\ ~isLoadingModels
        /\ \/ availableModels = FallbackModels
           \/ CatalogOk /\ CatalogIsMapped

(***************************************************************************)
(* The claims about generateDescription.                                   *)
(***************************************************************************)
\* The input text or the API key is empty after trimming.
EmptyAfterTrim == Trim(inputText) = <<>> \/ Trim(apiKey) = <<>>

\* C3: a call of generateDescription while the input text or the API key is
\* empty after trimming raises an alert, sends no request and leaves
\* isLoading and outputText as they were; no step taken in such a state
\* sends a request.
C3_MissingInputOnlyAlerts ==
    /\ [][(EmptyAfterTrim /\ CallGenerateDescription) =>
            /\ alerts' = alerts + 1
            /\ requests' = requests
            /\ isLoading' = isLoading
            /\ outputText' = outputText]_vars
    /\ [][EmptyAfterTrim => Len(requests') <= Len(requests)]_vars

\* C3's case: an alert was raised, the input is empty after trimming, and the
\* request sent before and its loading state are still there.
C3_Witness ==
    /\ alerts > 0
    /\ EmptyAfterTrim
    /\ inputText # <<>>
    /\ isLoading
    /\ Len(requests) = 1

\* C4: when generations are started by the generate button, at most one
\* completion request is outstanding in every reachable state.
C4_AtMostOneInFlight == Len(requests) <= 1

\* C4's case: a request is outstanding while the input text and the API key
\* would let another one start.
C4_Witness ==
    /\ Len(requests) = 1
    /\ isLoading
    /\ ~EmptyAfterTrim
    /\ "apiKey" \in changed

\* The generation has ended with the response completion.response.
GenerationSettled == completion.st = "settled"

\* A parsed body without the expected choice field: no choices, no first
\* choice, a first choice without message, or a message without content.
LacksChoiceContent(json) ==
    \/ json.t # "object"
    \/ "choices" \notin DOMAIN json.f
    \/ json.f["choices"].t # "array"
    \/ json.f["choices"].e = <<>>
    \/ json.f["choices"].e[1].t # "object"
    \/ "message" \notin DOMAIN json.f["choices"].e[1].f
    \/ json.f["choices"].e[1].f["message"].t # "object"
    \/ "content" \notin DOMAIN json.f["choices"].e[1].f["message"].f

\* The generation ended with a network failure, a non-2xx status or a 2xx
\* body without the expected choice field.
GenerationFailed ==
    /\ GenerationSettled
    /\ \/ completion.response.kind = "reject"
       \/ /\ completion.response.kind = "http"
          /\ \/ ~completion.response.ok
             \/ /\ ~completion.response.json.throws
                /\ LacksChoiceContent(completion.response.json.v)

\* C5: after a generation that ended with a network failure, a non-2xx
\* status or a 2xx body without the expected choice field, outputText is the
\* fixed failure text.
C5_FailureGivesErrorText == GenerationFailed => outputText = JStr(GenerationErrorText)

\* The generation ended with a 2xx body whose first choice has a message
\* with a string as content.
GenerationSucceeded ==
    /\ GenerationSettled
    /\ completion.response.kind = "http"
    /\ completion.response.ok
    /\ ~completion.response.json.throws
    /\ ~LacksChoiceContent(completion.response.json.v)
    /\ completion.response.json.v.f["choices"].e[1].f["message"].f["content"].t = "string"

\* C6: after a generation that ended with a 2xx body whose first choice's
\* message content is a string, outputText is that string, unchanged.
C6_SuccessGivesFirstContent ==
    GenerationSucceeded =>
        outputText = completion.response.json.v.f["choices"].e[1].f["message"].f["content"]

\* C6's case: a body with two choices, the first with white space around its
\* text, has been shown as it came.
C6_Witness ==
    /\ GenerationSucceeded
    /\ Len(completion.response.json.v.f["choices"].e) = 2
    /\ outputText = JStr(<<" ", "-", " ", "A", "\n">>)
    /\ ~isLoading

\* The number of places of s where pat occurs.
CountOccurrences(s, pat) == Cardinality({i \in 1..Len(s) : MatchesAt(s, pat, i)})

\* template with its first '{input}' cut out and text put in its place.
FirstTokenReplaced(template, text) ==
    LET pos == CHOOSE i \in 1..Len(template) :
                    /\ MatchesAt(template, InputToken, i)
                    /\ \A j \in 1..(i - 1) : ~MatchesAt(template, InputToken, j)
    IN SubSeq(template, 1, pos - 1) \o text
       \o SubSeq(template, pos + Len(InputToken), Len(template))

\* This step sends a completion request.
RequestSent == Len(requests') = Len(requests) + 1

\* C7: a request sent while the prompt template holds exactly one '{input}'
\* carries the template with that token replaced by the input text,
\* character for character.
C7_OneTokenReplacedByInput ==
    [][(RequestSent /\ CountOccurrences(systemPrompt, InputToken) = 1) =>
            requests'[Len(requests')].body.messages[1].content
                = FirstTokenReplaced(systemPrompt, inputText)]_vars

\* C8: a request sent while the prompt template holds '{input}' more than
\* once carries the template with the first token replaced by the input text
\* and the later ones left as they are.
C8_OnlyFirstTokenReplaced ==
    [][(RequestSent /\ CountOccurrences(systemPrompt, InputToken) > 1) =>
            requests'[Len(requests')].body.messages[1].content
                = FirstTokenReplaced(systemPrompt, inputText)]_vars

\* C15: with a transport that settles every request, a generation that has
\* started ends: isLoading is false again and no request is left, and after
\* every outcome isLoading is false and the generate button is usable when
\* the input text and the API key are there.
C15_GenerationEnds ==
    /\ isLoading ~> (~isLoading /\ requests = <<>>)
    /\ [](GenerationSettled => (~isLoading /\ (~EmptyAfterTrim => ~GenerateDisabled)))

\* C15's case: a generation has ended on a body that is not JSON, and the
\* button is usable.
C15_Witness ==
    /\ GenerationSettled
    /\ completion.response.kind = "http"
    /\ completion.response.ok
    /\ completion.response.json.throws
    /\ ~isLoading
    /\ ~GenerateDisabled

\* C17: no completion request is outstanding while the startup catalog fetch
\* is: isLoading and isLoadingModels are never both true.
C17_NoGenerationWhileCatalogLoads ==
    /\ ~(isLoading /\ isLoadingModels)
    /\ ~(requests # <<>> /\ modelsFetch.st = "pending")

TerminalWithValidInputs ==
    /\ GenerationSettled
    /\ phase = "mounted"
    /\ ~EmptyAfterTrim

\* C20: after a generation has ended, with a result or with the failure
\* text, a click on the generate button is possible when the input text and
\* the API key are there, and a request sent then sets isLoading, leaves
\* outputText empty, whatever it showed, and is the one request outstanding.
C20_TerminalStateAcceptsTrigger ==
    /\ [](TerminalWithValidInputs => ENABLED ClickGenerate)
    /\ [][(GenerationSettled /\ RequestSent) =>
            /\ isLoading'
            /\ outputText' = JStr(<<>>)
            /\ completion' = [st |-> "pending", cleared |-> outputText]
            /\ Len(requests') = 1]_vars

\* C20's case: a new generation is under way that has cleared the failure
\* text of the one before.
C20_Witness ==
    /\ completion.st = "pending"
    /\ completion.cleared = JStr(GenerationErrorText)
    /\ isLoading
    /\ outputText = JStr(<<>>)
    /\ Len(requests) = 1

\* C23: when generations are started by the generate button, isLoading is
\* true exactly while a completion request is outstanding, outputText is the
\* empty string whenever isLoading is true, and a step that writes anything
\* but the empty string to outputText is the step that ends a request.
C23_LoadingExactlyWhileInFlight ==
    /\ [](isLoading <=> requests # <<>>)
    /\ [](isLoading => outputText = JStr(<<>>))
    /\ [][(outputText' # outputText /\ outputText' # JStr(<<>>))
            => (phase' = phase /\ Len(requests') = Len(requests) - 1)]_vars

\* C23's case: a second generation is under way, the result of the first,
\* written when its request ended, cleared again.
C23_Witness ==
    /\ isLoading
    /\ requests # <<>>
    /\ outputText = JStr(<<>>)
    /\ completion.st = "pending"
    /\ completion.cleared = JStr(<<"B">>)

\* This step edits the API key, the selected model, the prompt template or
\* the input text, the page staying.
InputsEdited ==
    /\ phase = "mounted"
    /\ phase' = "mounted"
    /\ <<apiKey, selectedModel, systemPrompt, inputText>>'
            # <<apiKey, selectedModel, systemPrompt, inputText>>

\* This step ends the only outstanding request.
RequestEnded == phase' = phase /\ Len(requests) = 1 /\ requests' = <<>>

\* C24: an edit of the API key, the selected model, the prompt template or
\* the input text made while a request is outstanding leaves the request, as
\* it was sent, and the loading state as they are; the step that ends the
\* request writes what its response gives to outputText (the failure text
\* for a rejected fetch, the content for a body with one), whatever was
\* edited meanwhile; and the request sent next carries the edited values.
C24_EditsLeaveRequestInFlight ==
    /\ [][(requests # <<>> /\ InputsEdited) =>
            /\ requests' = requests
            /\ isLoading' = isLoading
            /\ outputText' = outputText
            /\ completion' = completion]_vars
    /\ [][RequestEnded =>
            /\ GenerationSettled'
            /\ completion'.response.kind = "reject" => outputText' = JStr(GenerationErrorText)
            /\ GenerationSucceeded' =>
                    outputText'
                        = completion'.response.json.v.f["choices"].e[1].f["message"].f["content"]]_vars
    /\ [][RequestSent =>
            /\ requests'[Len(requests')].authorization
                    = <<"B", "e", "a", "r", "e", "r", " ">> \o apiKey
            /\ requests'[Len(requests')].body.model = selectedModel]_vars

\* C24's case: a request is outstanding and the API key, the prompt template
\* and the input text are no longer what it was sent with.
C24_Witness ==
    /\ isLoading
    /\ Len(requests) = 1
    /\ apiKey = <<>>
    /\ inputText = <<>>
    /\ "systemPrompt" \in changed
    /\ requests[1].body.messages[1].content # Replace(systemPrompt, InputToken, <<"a">>)

\* The prompt template holds no '{input}'.
NoTokenInPrompt == \A i \in 1..Len(systemPrompt) : ~MatchesAt(systemPrompt, InputToken, i)

\* C26: while the prompt template holds no '{input}', a click on the
\* generate button is possible when the input text and the API key are
\* there and no generation is under way, and the request sent carries the
\* template as it is, character for character, as the content of its
\* message.
C26_NoTokenSendsTemplate ==
    /\ []((/\ NoTokenInPrompt
           /\ phase = "mounted"
           /\ ~isLoading
           /\ ~EmptyAfterTrim) => ENABLED (ClickGenerate /\ RequestSent))
    /\ [][(NoTokenInPrompt /\ RequestSent) =>
            /\ Len(requests'[Len(requests')].body.messages) = 1
            /\ requests'[Len(requests')].body.messages[1].content = systemPrompt]_vars

\* C26's case: a request is outstanding whose content is a template without
\* '{input}', the input text being one with a dollar pattern.
C26_Witness ==
    /\ Len(requests) = 1
    /\ NoTokenInPrompt
    /\ systemPrompt # <<>>
    /\ requests[1].body.messages[1].content = systemPrompt
    /\ inputText = <<"$", "&">>

(***************************************************************************)
(* The claims about the settings.                                          *)
(***************************************************************************)
\* C9: when the API key is persisted and the user sets it to the empty
\* string, the store holds no entry for it afterwards.
C9_EmptyKeyRemovesEntry ==
    [][(/\ phase = "mounted"
        /\ phase' = "mounted"
        /\ localStorage[KeyApiKey] # JNull
        /\ apiKey # <<>>
        /\ apiKey' = <<>>) => localStorage'[KeyApiKey] = JNull]_vars

\* C9's case: the API key has been edited to the empty string and has no
\* entry in the store, which holds the other settings.
C9_Witness ==
    /\ "apiKey" \in changed
    /\ apiKey = <<>>
    /\ localStorage[KeyApiKey] = JNull
    /\ localStorage[KeySystemPrompt] # JNull

\* C10 as stated: a setting edited since the page was loaded is in the store
\* with its in-memory value, but for an empty API key, which is absent.
C10_StoreHoldsInMemoryValue ==
    /\ "apiKey" \in changed =>
            localStorage[KeyApiKey] = (IF apiKey = <<>> THEN JNull ELSE JStr(apiKey))
    /\ "selectedModel" \in changed => localStorage[KeySelectedModel] = selectedModel
    /\ "systemPrompt" \in changed => localStorage[KeySystemPrompt] = JStr(systemPrompt)

\* C10 amended: a setting edited since the page was loaded is in the store
\* with the string form of its in-memory value, but for an API key that is
\* empty after trimming (empty or white space only), which is absent.
C10_StoreHoldsStringOfValue ==
    /\ "apiKey" \in changed =>
            localStorage[KeyApiKey] = (IF Trim(apiKey) = <<>> THEN JNull ELSE JStr(apiKey))
    /\ "selectedModel" \in changed =>
            localStorage[KeySelectedModel] = JStr(JToString(selectedModel))
    /\ "systemPrompt" \in changed => localStorage[KeySystemPrompt] = JStr(systemPrompt)

\* C10's case: all three settings have been edited, the API key to white
\* space only, which is not in the store.
C10_Witness ==
    /\ changed = {"apiKey", "selectedModel", "systemPrompt"}
    /\ apiKey # <<>>
    /\ Trim(apiKey) = <<>>
    /\ localStorage[KeyApiKey] = JNull
    /\ localStorage[KeySystemPrompt] = JStr(systemPrompt)

\* This step is a reload of the page.
Reloaded == phase = "mounted" /\ phase' = "setup"

\* C11: a reload gives every setting edited since the page was loaded the
\* value it was last changed to, the empty string and white space included:
\* the refs read at startup are the refs as they were before the reload.
C11_ReloadKeepsChangedSettings ==
    [][Reloaded =>
            /\ "apiKey" \in changed => apiKey' = apiKey
            /\ "selectedModel" \in changed => selectedModel' = selectedModel
            /\ "systemPrompt" \in changed => systemPrompt' = systemPrompt]_vars

(***************************************************************************)
(* The claims about filteredModels.                                        *)
(***************************************************************************)
\* The field v of a catalog entry is a string in which filter occurs, letter
\* case aside.
FieldContains(v, filter) ==
    /\ v.t = "string"
    /\ \E i \in 1..(Len(v.s) + 1) : MatchesAt(ToLowerCase(v.s), ToLowerCase(filter), i)

\* The name, the id or the description of model holds filter.
EntryContains(model, filter) ==
    \/ FieldContains(model.name, filter)
    \/ FieldContains(model.id, filter)
    \/ FieldContains(model.description, filter)

\* C12: in every state filteredModels is a list, every entry of it holds the
\* filter string in its name, id or description (letter case aside), and every
\* entry of the catalog that does so is in it.
C12_FilterGivesExactlyMatches ==
    LET result == filteredModels(availableModels, modelFilter) IN
    /\ ~result.throws
    /\ \A i \in DOMAIN result.v : EntryContains(result.v[i], modelFilter)
    /\ \A j \in DOMAIN availableModels :
            EntryContains(availableModels[j], modelFilter) =>
                \E i \in DOMAIN result.v : result.v[i] = availableModels[j]

\* r holds entries of models at increasing positions: it keeps their order
\* and takes none twice.
IsSubsequence(r, models) ==
    \E at \in [1..Len(r) -> 1..Len(models)] :
        /\ \A i \in 1..Len(r) : r[i] = models[at[i]]
        /\ \A i, j \in 1..Len(r) : i < j => at[i] < at[j]

\* C13: with the empty filter string filteredModels is the catalog itself,
\* and with any filter string the list it yields is a subsequence of the
\* catalog.
C13_FilterKeepsOrder ==
    LET result == filteredModels(availableModels, modelFilter) IN
    /\ modelFilter = <<>> => result = Ok(availableModels)
    /\ ~result.throws => IsSubsequence(result.v, availableModels)

\* C13's case: a filter string picks the first and the third of a catalog of
\* three entries.
C13_Witness ==
    /\ modelFilter # <<>>
    /\ Len(availableModels) = 3
    /\ ~filteredModels(availableModels, modelFilter).throws
    /\ filteredModels(availableModels, modelFilter).v = <<availableModels[1], availableModels[3]>>

(***************************************************************************)
(* The claims about the dropdown.                                          *)
(***************************************************************************)
\* This step selects a model: the selected model changes, or is written for
\* the first time since the page was loaded, while the page stays.
ModelSelected ==
    /\ phase = "mounted"
    /\ phase' = "mounted"
    /\ \/ selectedModel' # selectedModel
       \/ "selectedModel" \in changed' \ changed

\* This step edits the filter string in the search input of the dropdown,
\* which stays open.
FilterEdited ==
    /\ showModelDropdown
    /\ showModelDropdown'
    /\ modelFilter' # modelFilter

\* C19: a step that selects a model or edits the filter string leaves
\* isLoading, outputText and the outstanding requests as they were.
C19_DropdownLeavesGeneration ==
    [][(ModelSelected \/ FilterEdited) =>
            /\ isLoading' = isLoading
            /\ outputText' = outputText
            /\ requests' = requests]_vars

\* C19's case: while a request is outstanding another model than the one it
\* carries has been selected and the filter string is being edited.
C19_Witness ==
    /\ isLoading
    /\ Len(requests) = 1
    /\ "selectedModel" \in changed
    /\ requests[1].body.model # selectedModel
    /\ showModelDropdown
    /\ modelFilter # <<>>

\* C21: the selected model id need not be an id of the catalog.  In every
\* state getSelectedModelName is the name of the first catalog entry that
\* has the selected id and, when there is none, the selected id itself; and
\* a step of the page that changes the catalog leaves the selected id alone.
C21_SelectedIdNeedNotBeInCatalog ==
    /\ [](\A i \in DOMAIN availableModels :
            (/\ availableModels[i].id = selectedModel
             /\ \A j \in 1..(i - 1) : availableModels[j].id # selectedModel)
                => getSelectedModelName(availableModels, selectedModel)
                        = availableModels[i].name)
    /\ []((\A i \in DOMAIN availableModels : availableModels[i].id # selectedModel)
            => getSelectedModelName(availableModels, selectedModel) = selectedModel)
    /\ [][(phase' = phase /\ availableModels' # availableModels)
            => selectedModel' = selectedModel]_vars

\* C21's case: the catalog has been replaced by the fallback catalog while
\* the selected id, chosen from an earlier catalog, is none of its ids and is
\* shown as it is.
C21_Witness ==
    /\ ModelsSettled
    /\ availableModels = FallbackModels
    /\ selectedModel = JStr(<<"m", "/", "a">>)
    /\ getSelectedModelName(availableModels, selectedModel) = selectedModel

\* C22: for the catalog loadModels has made of a 2xx response with a data
\* array, and every filter string, filteredModels is a list: its evaluation
\* throws nothing.
C22_FilterIsTotal ==
    CatalogOk => ~filteredModels(availableModels, modelFilter).throws

(***************************************************************************)
(* More claims about the settings.                                         *)
(***************************************************************************)
\* C25: starting from a store without an entry for the API key, whatever
\* the key is edited to, the store holds no entry for it or a string with a
\* character that is not white space; a key of white space only stays in
\* memory as it was typed and has no entry.
C25_NoBlankKeyStored ==
    /\ [](\/ localStorage[KeyApiKey] = JNull
          \/ /\ localStorage[KeyApiKey].t = "string"
             /\ \E i \in DOMAIN localStorage[KeyApiKey].s :
                    localStorage[KeyApiKey].s[i] \notin WhiteSpace)
    /\ []((/\ "apiKey" \in changed
           /\ apiKey # <<>>
           /\ \A i \in DOMAIN apiKey : apiKey[i] \in WhiteSpace)
            => localStorage[KeyApiKey] = JNull)

\* C25's case: the key has been edited to a blank and a line break, which is
\* in memory and not in the store.
C25_Witness ==
    /\ "apiKey" \in changed
    /\ apiKey = <<" ", "\n">>
    /\ localStorage[KeyApiKey] = JNull

\* The id of the i-th option of the open dropdown's list.
OptionId(i) == filteredModels(availableModels, modelFilter).v[i].id

\* What selectModel(id) does, stored being what it leaves under
\* 'selected_model': the selected model is id, the dropdown is closed, the
\* filter string empty, and the catalog, the API key, the prompt template
\* and the other entries of the store are as before.
SelectEffects(id, stored) ==
    /\ selectedModel' = id
    /\ localStorage' = [localStorage EXCEPT ![KeySelectedModel] = stored]
    /\ showModelDropdown' = FALSE
    /\ modelFilter' = <<>>
    /\ UNCHANGED <<availableModels, apiKey, systemPrompt>>

\* A second selectModel(id): in a state that a selectModel(id) has left, but
\* for the dropdown, opened again, another one changes the selected model
\* and the store in nothing.
SecondSelectChangesNothing(id, stored) ==
    (selectedModel = id /\ localStorage[KeySelectedModel] = stored)
        => UNCHANGED <<selectedModel, localStorage, availableModels, apiKey, systemPrompt>>

\* C27 as stated: a click on an option calls selectModel(id), which sets
\* the selected model to id, leaves id under 'selected_model', closes the
\* dropdown, empties the filter string and changes neither the catalog, the
\* API key nor the prompt template; called again with the same id it leaves
\* the same state.
C27_SelectPersistsId ==
    [][(showModelDropdown /\ ~showModelDropdown') =>
        \A i \in 1..Len(availableModels) :
            ClickModelOption(i) =>
                LET id == OptionId(i) IN
                /\ SelectEffects(id, id)
                /\ SecondSelectChangesNothing(id, id)]_vars

\* C27 amended: the same, with the string form of id under
\* 'selected_model' (id itself when it is a string).
C27_SelectPersistsStringOfId ==
    [][(showModelDropdown /\ ~showModelDropdown') =>
        \A i \in 1..Len(availableModels) :
            ClickModelOption(i) =>
                LET id == OptionId(i) IN
                /\ SelectEffects(id, JStr(JToString(id)))
                /\ SecondSelectChangesNothing(id, JStr(JToString(id)))]_vars

\* C27's case: the option of an entry without id has been chosen: the
\* selected model is undefined, the store holds the string 'undefined', the
\* dropdown is closed and the filter string empty.
C27_Witness ==
    /\ "selectedModel" \in changed
    /\ selectedModel = JUndef
    /\ localStorage[KeySelectedModel] = JStr(JToString(JUndef))
    /\ ~showModelDropdown
    /\ modelFilter = <<>>

\* C28: whatever the prompt template is, resetPromptToDefault makes it the
\* default prompt, leaves the default prompt under 'system_prompt' and the
\* other entries of the store as they are, and changes neither the API key,
\* the selected model, the catalog, isLoading nor outputText.
C28_ResetPersistsDefault ==
    [][resetPromptToDefault =>
            /\ systemPrompt' = defaultPrompt
            /\ localStorage' = [localStorage EXCEPT ![KeySystemPrompt] = JStr(defaultPrompt)]
            /\ UNCHANGED <<apiKey, selectedModel, availableModels, isLoading, outputText,
                           requests>>]_vars

\* C28's case: the prompt template has been reset while a request is
\* outstanding: it is the default prompt, in memory and in the store, and
\* not what the request was rendered from.
C28_Witness ==
    /\ "systemPrompt" \in changed
    /\ systemPrompt = defaultPrompt
    /\ localStorage[KeySystemPrompt] = JStr(defaultPrompt)
    /\ isLoading
    /\ Len(requests) = 1
    /\ requests[1].body.messages[1].content = NoTokenPrompt

====
